---- MODULE Spec2Model ----
(***************************************************************************)
(* Model of the Uno core objects: Card (core/card.py), Deck (core/deck.py) *)
(* and Hand (core/hand.py).                                                *)
(*                                                                         *)
(* Encoding of Python values:                                              *)
(*   - a Colour / CardType / DeckSize enum member is its name as a string; *)
(*   - None in a colour position is the string "None";                     *)
(*   - an optional int is a set: {} is None, {n} is the int n;             *)
(*   - an object is a record carrying its identity in the field id;        *)
(*   - the outcome of a call is a record with ok = TRUE and the value, or  *)
(*     ok = FALSE and the exception raised.                                *)
(***************************************************************************)
EXTENDS Integers, Sequences, FiniteSets, TLC

VARIABLES
    deck,    \* Deck.deck: the list of Card objects, top of the deck last
    hands,   \* hands[h]: Hand._cards of hand h
    built,   \* history: the list the deck held when it was handed over
    drawn,   \* history: the cards returned by Deck.draw so far, in order
    objs,    \* the Card objects constructed and held for comparison
    last     \* the latest call: its operation, its arguments and its outcome

vars == <<deck, hands, built, drawn, objs, last>>

----------------------------------------------------------------------------
(* Bounds *)

MaxDeck == 3       \* longest deck handed to the Deck / Hand.pick_up runs
MaxPlay == 3       \* longest deck handed to the Hand.can_play_on runs
NHands == 2        \* number of hands drawing from one deck
MaxNumber == 10    \* largest number passed to the Card constructor

----------------------------------------------------------------------------
(* Python values *)

None == "None"
NoneNum == {}
Num(n) == {n}

\* bool(x) of an optional int: None and 0 are falsy
TruthyNum(number) == \E n \in number : n # 0

\* bool(x) of a colour argument: None is falsy, enum members and the
\* non-empty string used as a non-Colour argument are truthy
TruthyColour(colour) == colour # None

Raise(exc, msg) == [ok |-> FALSE, exc |-> exc, msg |-> msg]

----------------------------------------------------------------------------
(* core/card.py *)

Colour == {"Red", "Green", "Yellow", "Blue"}

\* iteration order of `for current in Colour`
ColourOrder == <<"Red", "Green", "Yellow", "Blue">>

CardType == {"Normal", "Skip", "Plus2", "Reverse", "WildPlus4", "Wild"}

\* CardType(i): lookup of a member by value
CardTypeOf(i) ==
    CASE i = 0 -> "Normal"
      [] i = 1 -> "Skip"
      [] i = 2 -> "Plus2"
      [] i = 3 -> "Reverse"
      [] i = 4 -> "WildPlus4"
      [] i = 5 -> "Wild"

\* raise_type_error(missing_param, expected_type)
raise_type_error(missing_param, expected_type) ==
    Raise("TypeError", <<missing_param, "must be", expected_type>>)

\* Card.__init__ run on a fresh object of identity id.  number is an int or
\* None, so the isinstance(number, int) test always passes and is not
\* shown as a branch.
Card(id, colour, number, type) ==
    IF TruthyColour(colour) /\ colour \notin Colour
      THEN Raise("TypeError", <<"colour parameter is not of type Colour">>)
    ELSE IF TruthyNum(number) /\ \E n \in number : ~(0 <= n /\ n < 10)
      THEN Raise("ArithmeticError", <<"not a valid card number">>)
    ELSE IF type \notin CardType
      THEN Raise("TypeError", <<"type parameter is not of type CardType">>)
    ELSE IF type = "Normal" /\ ~TruthyColour(colour)
      THEN Raise("ValueError", <<"missing colour parameter">>)
    ELSE IF type = "Normal" /\ ~TruthyNum(number)
      THEN Raise("ValueError", <<"missing number parameter">>)
    ELSE IF type = "Skip" /\ TruthyNum(number)
      THEN raise_type_error("number", "None")
    ELSE IF type = "Plus2" /\ TruthyNum(number)
      THEN raise_type_error("number", "None")
    ELSE IF type = "Wild" /\ TruthyColour(colour)
      THEN raise_type_error("colour", "None")
    ELSE IF type = "Wild" /\ TruthyNum(number)
      THEN raise_type_error("number", "None")
    ELSE IF type = "WildPlus4" /\ TruthyColour(colour)
      THEN raise_type_error("colour", "None")
    ELSE IF type = "WildPlus4" /\ TruthyNum(number)
      THEN raise_type_error("number", "None")
    ELSE [ok |-> TRUE,
          card |-> [id |-> id, colour |-> colour, number |-> number, type |-> type]]

\* Card.__hash__, as written by a class that keeps object's default hash
HashById(self) == <<self.id>>

\* Card.__hash__: hash((self.colour, self.number, self.type)).  The hash of
\* a tuple is a function of its elements, and None, ints and enum members
\* hash by value, so the hash is represented by the tuple itself.
Hash(self) == <<self.colour, self.number, self.type>>

\* Card.__eq__ on two Card objects (a non-Card other raises NotCompatibleError)
Eq(self, other) ==
    /\ self.colour = other.colour
    /\ self.number = other.number
    /\ self.type = other.type

----------------------------------------------------------------------------
(* Arguments passed to the Card constructor *)

NotAColour == "purple"
NotACardType == "NotACardType"

ColourArgs == Colour \cup {None, NotAColour}
NumberArgs == {NoneNum} \cup {Num(n) : n \in -1..MaxNumber}
TypeArgs == CardType \cup {NotACardType}

NoCall == [op |-> "none", ok |-> TRUE]

----------------------------------------------------------------------------
(* errors.py *)

NoCardsLeftError == "NoCardsLeftError"
NotSupportedError == "NotSupportedError"

----------------------------------------------------------------------------
(* core/deck.py *)

DeckSize == {"Normal"}
NotADeckSize == "NotADeckSize"

Twice(x) == <<x, x>>
Times4(x) == <<x, x, x, x>>

RECURSIVE Concat(_, _, _)
\* f(lo) \o f(lo + 1) \o ... \o f(hi) for a function f to sequences
Concat(f, lo, hi) == IF lo > hi THEN <<>> ELSE f[lo] \o Concat(f, lo + 1, hi)

\* The Card constructor calls of one iteration of `for current in Colour`,
\* in the order the code makes them.
ColourCalls(current) ==
       <<<<current, Num(0), "Normal">>>>
    \o <<<<current, Num(0), "Normal">>>>
    \o Concat([i \in 0..8 |-> Twice(<<current, Num(i), "Normal">>)], 0, 8)
    \o Concat([i \in 1..3 |-> Twice(<<current, NoneNum, CardTypeOf(i)>>)], 1, 3)
    \o Times4(<<None, NoneNum, "Wild">>)
    \o Times4(<<None, NoneNum, "WildPlus4">>)

\* The Card constructor calls of the DeckSize.Normal build, in order.
NormalCalls == Concat([k \in 1..4 |-> ColourCalls(ColourOrder[k])], 1, 4)

RECURSIVE BuildFrom(_, _, _)
\* Run the constructor calls from position i on, appending to self.deck;
\* the first constructor that raises ends the build with its exception.
BuildFrom(calls, i, acc) ==
    IF i > Len(calls) THEN [ok |-> TRUE, deck |-> acc]
    ELSE LET c == Card(i, calls[i][1], calls[i][2], calls[i][3])
         IN  IF c.ok THEN BuildFrom(calls, i + 1, Append(acc, c.card))
                     ELSE c

\* Deck.__init__(size)
DeckInit(size) ==
    IF size \notin DeckSize
      THEN Raise("TypeError", <<"size parameter is not of type DeckSize">>)
    ELSE IF size = "Normal"
      THEN BuildFrom(NormalCalls, 1, <<>>)
    ELSE Raise(NotSupportedError, <<"this mode is not supported">>)

\* Deck.draw taking the first card of the list: pop(0)
drawFirst(d) ==
    IF d = <<>>
      THEN Raise(NoCardsLeftError, <<"no cards are left in the deck">>)
      ELSE [ok |-> TRUE, ret |-> d[1], deck |-> SubSeq(d, 2, Len(d))]

\* Deck.draw on the list d: the outcome and the list afterwards
draw(d) ==
    IF d = <<>>
      THEN Raise(NoCardsLeftError, <<"no cards are left in the deck">>)
      ELSE [ok |-> TRUE, ret |-> d[Len(d)], deck |-> SubSeq(d, 1, Len(d) - 1)]

----------------------------------------------------------------------------
(* core/hand.py *)

\* Hand.pick_up returning the drawn card without appending it
pick_upNoAppend(cards, d) ==
    LET r == draw(d)
    IN  IF r.ok THEN [ok |-> TRUE, cards |-> cards, deck |-> r.deck]
                ELSE [ok |-> FALSE, exc |-> r.exc, msg |-> r.msg,
                      cards |-> cards, deck |-> d]

\* Hand.pick_up reading the top card without removing it from the deck
pick_upPeek(cards, d) ==
    LET r == draw(d)
    IN  IF r.ok THEN [ok |-> TRUE, cards |-> Append(cards, r.ret), deck |-> d]
                ELSE [ok |-> FALSE, exc |-> r.exc, msg |-> r.msg,
                      cards |-> cards, deck |-> d]

\* Hand.pick_up swallowing the empty-deck error and appending None
pick_upSwallow(cards, d) ==
    LET r == draw(d)
    IN  IF r.ok THEN [ok |-> TRUE, cards |-> Append(cards, r.ret), deck |-> r.deck]
                ELSE [ok |-> TRUE, cards |-> Append(cards, None), deck |-> d]

\* Hand.pick_up(deck) on the hand list cards and the deck list d:
\* self._cards.append(deck.draw()); a raising draw leaves both lists alone
pick_up(cards, d) ==
    LET r == draw(d)
    IN  IF r.ok THEN [ok |-> TRUE, cards |-> Append(cards, r.ret), deck |-> r.deck]
                ELSE [ok |-> FALSE, exc |-> r.exc, msg |-> r.msg,
                      cards |-> cards, deck |-> d]

\* playable(card) with the number test written without the truthiness test
playableZero(card, current) ==
    \/ Eq(card, current)
    \/ card.type = current.type
    \/ (TruthyColour(card.colour) /\ card.colour = current.colour)
    \/ card.number = current.number
    \/ card.type = "WildPlus4"
    \/ card.type = "Wild"

\* playable(card) with a pre-check that lets any card go on a wild card
playableOnWild(card, current) ==
    \/ current.type \in {"Wild", "WildPlus4"}
    \/ Eq(card, current)
    \/ card.type = current.type
    \/ (TruthyColour(card.colour) /\ card.colour = current.colour)
    \/ (TruthyNum(card.number) /\ card.number = current.number)
    \/ card.type = "WildPlus4"
    \/ card.type = "Wild"

\* playable(card) inside Hand.can_play_on(current): any(checks); the
\* pre-check on current.type has an empty body
playable(card, current) ==
    \/ Eq(card, current)
    \/ card.type = current.type
    \/ (TruthyColour(card.colour) /\ card.colour = current.colour)
    \/ (TruthyNum(card.number) /\ card.number = current.number)
    \/ card.type = "WildPlus4"
    \/ card.type = "Wild"

\* Hand.can_play_on(current) on the hand list cards
can_play_on(cards, current) ==
    LET keep(card) == playable(card, current)
    IN  SelectSeq(cards, keep)

----------------------------------------------------------------------------
(* State *)

Hands == 1..NHands

\* the hand that queries can_play_on: the first one
Player == CHOOSE h \in Hands : \A g \in Hands : h <= g

Range(s) == {s[i] : i \in DOMAIN s}

\* the Card objects a list of accepted constructor calls yields, the
\* object at position i having identity i
Objects(calls) ==
    [i \in DOMAIN calls |-> Card(i, calls[i][1], calls[i][2], calls[i][3]).card]

\* constructor calls, kept only if the constructor accepts them
Accepted(calls) == {a \in calls : Card(0, a[1], a[2], a[3]).ok}

\* the cards the decks of the Deck and Hand.pick_up runs are made of
DealCalls ==
    Accepted({ <<"Red", Num(5), "Normal">>,
               <<"Blue", NoneNum, "Skip">>,
               <<None, NoneNum, "Wild">> })

\* the cards the decks of the Hand.can_play_on runs are made of
PlayCalls ==
    Accepted({ <<"Red", Num(5), "Normal">>,
               <<"Blue", Num(7), "Normal">>,
               <<"Blue", NoneNum, "Skip">>,
               <<"Green", Num(0), "Reverse">>,
               <<None, NoneNum, "Plus2">>,
               <<None, NoneNum, "Wild">>,
               <<None, NoneNum, "WildPlus4">> })

\* the cards shown as the top of the stack
CurrentCalls ==
    Accepted({ <<"Red", Num(7), "Normal">>,
               <<"Red", Num(5), "Normal">>,
               <<"Green", NoneNum, "Skip">>,
               <<None, Num(0), "Skip">>,
               <<None, NoneNum, "Skip">>,
               <<None, NoneNum, "Wild">>,
               <<None, NoneNum, "WildPlus4">> })

\* the lists of at most n objects made from calls
Decks(calls, n) ==
    {Objects(c) : c \in UNION {[1..k -> calls] : k \in 0..n}}

InitWith(d) ==
    /\ deck = d
    /\ built = d
    /\ drawn = <<>>
    /\ hands = [h \in Hands |-> <<>>]
    /\ objs = <<>>
    /\ last = NoCall

----------------------------------------------------------------------------
(* Card: construction, ==, hash *)

InitCard == InitWith(<<>>)

\* Card(colour, number, type)
Construct(colour, number, type) ==
    /\ last' = [op |-> "Card", args |-> <<colour, number, type>>,
                out |-> Card(0, colour, number, type)]
    /\ UNCHANGED <<deck, hands, built, drawn, objs>>

NextCard ==
    \E colour \in ColourArgs, number \in NumberArgs, type \in TypeArgs :
        Construct(colour, number, type)

SpecCard == InitCard /\ [][NextCard]_vars

\* every constructor call the constructor accepts
AllCalls == Accepted(ColourArgs \X NumberArgs \X TypeArgs)

\* two Card objects, of identities 1 and 2, from accepted constructor calls
InitEq ==
    /\ deck = <<>>
    /\ built = <<>>
    /\ drawn = <<>>
    /\ hands = [h \in Hands |-> <<>>]
    /\ objs \in {Objects(c) : c \in [1..2 -> AllCalls]}
    /\ last = NoCall

\* a == b, hash(a), hash(b) on two constructed Card objects
Compare(a, b) ==
    /\ last' = [op |-> "eq", args |-> <<a, b>>,
                out |-> [ok |-> TRUE, ret |-> Eq(a, b),
                         hashes |-> <<Hash(a), Hash(b)>>]]
    /\ UNCHANGED <<deck, hands, built, drawn, objs>>

NextEq == \E a \in Range(objs), b \in Range(objs) : Compare(a, b)

SpecEq == InitEq /\ [][NextEq]_vars

----------------------------------------------------------------------------
(* Deck: construction, draw *)

InitDeck == \E d \in Decks(DealCalls, MaxDeck) : InitWith(d)

\* deck = Deck(size); a raising constructor leaves the old binding
NewDeck(size) ==
    LET r == DeckInit(size)
    IN  /\ last' = [op |-> "Deck", args |-> <<size>>, out |-> r]
        /\ deck' = IF r.ok THEN r.deck ELSE deck
        /\ built' = IF r.ok THEN r.deck ELSE built
        /\ drawn' = IF r.ok THEN <<>> ELSE drawn
        /\ UNCHANGED <<hands, objs>>

\* deck.draw()
Draw ==
    LET r == draw(deck)
    IN  /\ last' = [op |-> "draw", args |-> <<>>,
                    out |-> IF r.ok THEN [ok |-> TRUE, ret |-> r.ret]
                                    ELSE Raise(r.exc, r.msg)]
        /\ deck' = IF r.ok THEN r.deck ELSE deck
        /\ drawn' = IF r.ok THEN Append(drawn, r.ret) ELSE drawn
        /\ UNCHANGED <<hands, built, objs>>

NextDeck ==
    \/ \E size \in DeckSize \cup {NotADeckSize} : NewDeck(size)
    \/ Draw

SpecDeck == InitDeck /\ [][NextDeck]_vars

----------------------------------------------------------------------------
(* Hand: pick_up, can_play_on *)

\* hands[h].pick_up(deck)
PickUp(h) ==
    LET r == pick_up(hands[h], deck)
    IN  /\ last' = [op |-> "pick_up", args |-> <<h>>,
                    out |-> IF r.ok THEN [ok |-> TRUE]
                                    ELSE Raise(r.exc, r.msg)]
        /\ hands' = [hands EXCEPT ![h] = r.cards]
        /\ deck' = r.deck
        /\ drawn' = IF Len(r.deck) < Len(deck)
                      THEN Append(drawn, deck[Len(deck)]) ELSE drawn
        /\ UNCHANGED <<built, objs>>

\* hands[h].can_play_on(current)
CanPlayOn(h, current) ==
    /\ last' = [op |-> "can_play_on", args |-> <<h, current>>,
                out |-> [ok |-> TRUE, ret |-> can_play_on(hands[h], current)]]
    /\ UNCHANGED <<deck, hands, built, drawn, objs>>

InitHand == \E d \in Decks(DealCalls, MaxDeck) : InitWith(d)

NextHand == \E h \in Hands : PickUp(h)

SpecHand == InitHand /\ [][NextHand]_vars

InitPlay == \E d \in Decks(PlayCalls, MaxPlay) : InitWith(d)

\* the card on top of the stack is an object of its own, of identity 0
Currents == {Card(0, a[1], a[2], a[3]).card : a \in CurrentCalls}

NextPlay ==
    \/ PickUp(Player)
    \/ \E current \in Currents : CanPlayOn(Player, current)

SpecPlay == InitPlay /\ [][NextPlay]_vars

----------------------------------------------------------------------------
(* Helpers of the properties *)

Reverse(s) == [i \in 1..Len(s) |-> s[Len(s) + 1 - i]]

\* the (colour, number, type) of each object of a list
Fields(s) == [i \in DOMAIN s |-> <<s[i].colour, s[i].number, s[i].type>>]

\* how many times the object c occurs in the list s
Count(s, c) == Cardinality({i \in DOMAIN s : s[i] = c})

\* how many objects of the list s have these fields
CountOf(s, colour, number, type) ==
    Cardinality({i \in DOMAIN s : Fields(s)[i] = <<colour, number, type>>})

RECURSIVE CountInHands(_, _)
\* how many times the object c occurs in the hands 1..n together
CountInHands(n, c) ==
    IF n = 0 THEN 0 ELSE Count(hands[n], c) + CountInHands(n - 1, c)

----------------------------------------------------------------------------
(* Hand.can_play_on *)

\* the playability rule as the specification words it
PlayRule(card, current) ==
    \/ <<card.colour, card.number, card.type>>
          = <<current.colour, current.number, current.type>>
    \/ card.type = current.type
    \/ (card.colour # None /\ card.colour = current.colour)
    \/ (card.number # NoneNum /\ card.number # Num(0)
          /\ card.number = current.number)
    \/ card.type = "Wild"
    \/ card.type = "WildPlus4"

\* C1: can_play_on(current) returns exactly the cards of the hand, in hand
\* order and with multiplicity, that are value-equal to current, or share
\* its type, or have a colour equal to its colour, or have a non-zero number
\* equal to its number, or are Wild or WildPlus4.
C1_CanPlayOnIsRule ==
    last.op = "can_play_on" =>
        LET cards == hands[last.args[1]]
            current == last.args[2]
            Test(card) == PlayRule(card, current)
        IN  last.out.ret = SelectSeq(cards, Test)

\* the hand [Red 5, Blue Skip, Wild] asked about Red 7 answers [Red 5, Wild]
C1_Witness ==
    /\ last.op = "can_play_on"
    /\ Fields(hands[Player]) = << <<"Red", Num(5), "Normal">>,
                                  <<"Blue", NoneNum, "Skip">>,
                                  <<None, NoneNum, "Wild">> >>
    /\ Fields(<<last.args[2]>>) = << <<"Red", Num(7), "Normal">> >>
    /\ Fields(last.out.ret) = << <<"Red", Num(5), "Normal">>,
                                 <<None, NoneNum, "Wild">> >>

\* C10: on a Wild or WildPlus4 current card without colour and number,
\* can_play_on returns exactly the hand's Wild and WildPlus4 cards.
C10_OnlyWildsOnWild ==
    (/\ last.op = "can_play_on"
     /\ last.args[2].type \in {"Wild", "WildPlus4"}
     /\ last.args[2].colour = None
     /\ last.args[2].number = NoneNum) =>
        LET IsWild(card) == card.type \in {"Wild", "WildPlus4"}
        IN  last.out.ret = SelectSeq(hands[last.args[1]], IsWild)

\* a hand holding a Normal card, an action card and a wild card, asked
\* about a Wild current card
C10_Witness ==
    /\ last.op = "can_play_on"
    /\ last.args[2].type = "Wild"
    /\ \E i \in DOMAIN hands[Player] : hands[Player][i].type = "Normal"
    /\ \E i \in DOMAIN hands[Player] : hands[Player][i].type \in {"Skip", "Plus2", "Reverse"}
    /\ \E i \in DOMAIN hands[Player] : hands[Player][i].type = "WildPlus4"
    /\ Len(last.out.ret) = 1

----------------------------------------------------------------------------
(* Card *)

\* C2: for every colour and every number in 0..9, constructing a Normal
\* card succeeds and the card's colour, number and type equal the inputs.
C2_NormalCardConstructs ==
    (/\ last.op = "Card"
     /\ last.args[1] \in Colour
     /\ last.args[2] \in {Num(n) : n \in 0..9}
     /\ last.args[3] = "Normal") =>
        /\ last.out.ok
        /\ <<last.out.card.colour, last.out.card.number, last.out.card.type>>
              = last.args

\* a field the card type forbids is present (not None), all arguments
\* being in their domains
ForbiddenField(colour, number, type) ==
    /\ colour \in Colour \cup {None}
    /\ number \in {NoneNum} \cup {Num(n) : n \in 0..9}
    /\ \/ type \in {"Skip", "Plus2"} /\ number # NoneNum
       \/ type \in {"Wild", "WildPlus4"} /\ (colour # None \/ number # NoneNum)

\* C3: construction with a forbidden field present fails with the
\* unexpected-field error (the TypeError of raise_type_error), so no such
\* Card is produced.
C3_ForbiddenFieldRejected ==
    (/\ last.op = "Card"
     /\ ForbiddenField(last.args[1], last.args[2], last.args[3])) =>
        /\ ~last.out.ok
        /\ last.out.exc = "TypeError"
        /\ last.out.msg \in {<<"colour", "must be", "None">>,
                             <<"number", "must be", "None">>}

\* C8: a == b holds exactly when colour, number and type are equal, and
\* equal cards have equal hashes.
C8_EqAndHash ==
    last.op = "eq" =>
        LET a == last.args[1]
            b == last.args[2]
            differ == {f \in {"colour", "number", "type"} : a[f] # b[f]}
        IN  /\ last.out.ret = (differ = {})
            /\ last.out.ret => last.out.hashes[1] = last.out.hashes[2]

\* two distinct objects with the same fields compared equal
C8_Witness ==
    /\ last.op = "eq"
    /\ last.args[1].id # last.args[2].id
    /\ last.out.ret
    /\ last.args[1].number = Num(0)

----------------------------------------------------------------------------
(* Deck *)

\* C4: Deck(DeckSize.Normal) succeeds and yields, per colour, two cards of
\* each number 0..9 and two each of Skip, Plus2 and Reverse, plus 16 Wild
\* and 16 WildPlus4 cards: 136 cards.
C4_NormalDeckComposition ==
    (last.op = "Deck" /\ last.args = <<"Normal">>) =>
        /\ last.out.ok
        /\ deck = last.out.deck
        /\ Len(deck) = 136
        /\ \A colour \in Colour :
              /\ \A n \in 0..9 : CountOf(deck, colour, Num(n), "Normal") = 2
              /\ \A type \in {"Skip", "Plus2", "Reverse"} :
                    CountOf(deck, colour, NoneNum, type) = 2
        /\ CountOf(deck, None, NoneNum, "Wild") = 16
        /\ CountOf(deck, None, NoneNum, "WildPlus4") = 16

\* C5: the draws return the cards of the built list from its end
\* backwards, none skipped or repeated, each shortening the deck by one; a
\* draw raises NoCardsLeftError only when every card has been drawn, and
\* the deck is then still empty.
C5_DrawIsLIFO ==
    /\ built = deck \o Reverse(drawn)
    /\ (last.op = "draw" /\ last.out.ok) =>
          /\ drawn # <<>>
          /\ last.out.ret = drawn[Len(drawn)]
          /\ last.out.ret = built[Len(deck) + 1]
    /\ (last.op = "draw" /\ ~last.out.ok) =>
          /\ last.out.exc = NoCardsLeftError
          /\ deck = <<>>
          /\ drawn = Reverse(built)

\* a deck of at least two cards drawn to the end, and one draw more
C5_Witness ==
    /\ last.op = "draw"
    /\ ~last.out.ok
    /\ Len(built) >= 2
    /\ Len(drawn) = Len(built)

----------------------------------------------------------------------------
(* Hand.pick_up *)

\* C6: pick_up on a non-empty deck appends the deck's last card to the
\* hand, keeps the hand's earlier cards in place, and shortens the deck by
\* one.
C6_PickUpAppendsTop ==
    [][\A h \in Hands :
          (PickUp(h) /\ deck # <<>>) =>
              /\ Len(hands'[h]) = Len(hands[h]) + 1
              /\ hands'[h][Len(hands'[h])] = deck[Len(deck)]
              /\ SubSeq(hands'[h], 1, Len(hands[h])) = hands[h]
              /\ Len(deck') = Len(deck) - 1]_vars

\* a hand that held a card picked up another
C6_Witness ==
    /\ last.op = "pick_up"
    /\ last.out.ok
    /\ Len(hands[last.args[1]]) >= 2

\* C7: pick_up on an empty deck raises NoCardsLeftError and leaves the
\* hands and the deck unchanged.
C7_PickUpOnEmptyDeck ==
    [][\A h \in Hands :
          (PickUp(h) /\ deck = <<>>) =>
              /\ ~last'.out.ok
              /\ last'.out.exc = NoCardsLeftError
              /\ hands' = hands
              /\ deck' = deck]_vars

\* a hand holding cards picked up from the emptied deck and got the error
C7_Witness ==
    /\ last.op = "pick_up"
    /\ ~last.out.ok
    /\ deck = <<>>
    /\ hands[last.args[1]] # <<>>

\* C9: the deck is a prefix of the built list, every built card is in the
\* deck or in exactly one hand exactly once, and nothing else is.
C9_CardConservation ==
    /\ Len(deck) <= Len(built)
    /\ deck = SubSeq(built, 1, Len(deck))
    /\ \A c \in Range(built) \cup Range(deck) \cup UNION {Range(hands[h]) : h \in Hands} :
          Count(deck, c) + CountInHands(NHands, c) = Count(built, c)
    /\ \A g \in Hands, h \in Hands :
          g # h => Range(hands[g]) \cap Range(hands[h]) = {}

\* every card dealt, both hands holding some, and a failing pick_up after
C9_Witness ==
    /\ last.op = "pick_up"
    /\ ~last.out.ok
    /\ Len(built) >= 2
    /\ \A h \in {1, 2} : hands[h] # <<>>

====
